---- MODULE Spec2Model ----
(***************************************************************************)
(* Model of the image stacking application (dhirajkk91/Image_stacking):    *)
(* ImageProcessor (src/image_processor/image_processing.py), the request   *)
(* handler ImageStackerApp (src/image_processor/image_stacker.py) and the  *)
(* parts of UIManager (src/UI/ui_manager.py) that decide what a request    *)
(* surfaces.                                                               *)
(*                                                                         *)
(* Conventions.                                                            *)
(*  - An upscale factor is held as a whole number of slider steps of 0.25: *)
(*    the factor f is upscale_factor / FactorUnit.  Every such f and every *)
(*    product width * f is exact in binary floating point, so the integer  *)
(*    arithmetic below is the arithmetic of the code.                      *)
(*  - A PIL image is a record: width, height, channels (3 = RGB, 4 = RGBA),*)
(*    seed (which test raster its pixels are), loads (FALSE: the header    *)
(*    parses but the pixel data is truncated, so loading it raises).       *)
(*  - An ndarray is a record: shape <<height, width, channels>> and data,  *)
(*    the samples in row-major order.                                      *)
(*  - None is the record [none |-> TRUE]; "none" is the absent exception.  *)
(***************************************************************************)
EXTENDS Integers, Sequences, FiniteSets, TLC

VARIABLES
    entry,           \* the entry point of this run: "app" or a method called directly
    calls,           \* the processing methods of ImageProcessor entered so far, in order
    settings,        \* the settings dictionary
    uploaded_files,  \* what the file uploader returns
    images,          \* the list of PIL images given to the processor
    clicked,         \* the button clicked in this request: "none", "stack" or "enhance"
    pc,              \* position in the code
    stacked,         \* process_multiple_images' local `stacked` (an ndarray) or None
    result,          \* the image being processed / returned, or None
    raised,          \* the exception that ended processing, or "none"
    resized,         \* TRUE once Image.resize has been called
    stages,          \* the pipeline stages run so far, in order
    ui,              \* the elements surfaced on the page, in order
    save_call,       \* the arguments of image.save(...), or None
    exported         \* what export_processed_image returned, or None

vars == <<entry, calls, settings, uploaded_files, images, clicked, pc, stacked, result, raised,
          resized, stages, ui, save_call, exported>>

None == [none |-> TRUE]

-----------------------------------------------------------------------------
(* Bounds and input domains *)

MaxFiles == 3          \* longest list of uploads / of images
MaxDim == 4            \* largest width or height given to _upscale_image directly

FactorUnit == 4        \* slider steps per 1.0 of upscale factor (step = 0.25)
MinFactor == 4         \* slider min_value = 1.0
MaxFactor == 16        \* slider max_value = 4.0
MinQuality == 60       \* JPEG quality slider min_value
MaxQuality == 100      \* JPEG quality slider max_value
DefaultQuality == 95   \* JPEG quality slider value
NoQuality == -1        \* jpeg_quality = None (no JPEG quality slider shown)

OUTPUT_FORMATS == {"PNG", "JPEG", "TIFF"}

\* 8-bit samples the test rasters are made of
Palette == <<0, 100, 255>>

Sizes == {<<1, 2>>, <<2, 1>>}     \* <<width, height>>
ChannelCounts == {3, 4}
Seeds == 0 .. (Len(Palette) - 1)

\* The sample at row-major position p of test raster `seed`: at every position
\* the three rasters hold the three palette values, in an order that depends on p.
SampleAt(seed, p) == Palette[((seed + p) % Len(Palette)) + 1]

ImageRec(w, h, c, s, l) ==
    [width |-> w, height |-> h, channels |-> c, seed |-> s, loads |-> l]

TestImages ==
    { ImageRec(wh[1], wh[2], c, s, TRUE) : wh \in Sizes, c \in ChannelCounts, s \in Seeds }

\* An uploaded file: opens = FALSE when Image.open raises on it.
FileRec(o, img) == [opens |-> o, image |-> img]

AppFiles ==
    { FileRec(TRUE, ImageRec(wh[1], wh[2], c, 0, TRUE)) : wh \in Sizes, c \in ChannelCounts }
    \cup { FileRec(TRUE, ImageRec(1, 1, 3, 0, FALSE)) }     \* truncated pixel data
    \cup { FileRec(FALSE, ImageRec(1, 1, 3, 0, FALSE)) }    \* not an image

SeqsUpTo(S, n) == UNION { [1 .. k -> S] : k \in 0 .. n }

SettingsRec(f, fmt, q) == [upscale_factor |-> f, output_format |-> fmt, jpeg_quality |-> q]

\* What the sidebar can return: the quality slider exists only for JPEG.
UIFactors == {MinFactor, MinFactor + 3}
UIQualities == {MinQuality, DefaultQuality}
UISettings ==
    { SettingsRec(f, fmt, NoQuality) : f \in UIFactors, fmt \in OUTPUT_FORMATS \ {"JPEG"} }
    \cup { SettingsRec(f, "JPEG", q) : f \in UIFactors, q \in UIQualities }

\* Factors given to the processor directly: below 1.0, 1.0 and above.
StackFactors == {MinFactor - 1, MinFactor, MinFactor + 3}
DirectFactors == (MinFactor - 2) .. MaxFactor
DirectQualities == {NoQuality, MinQuality, DefaultQuality, MaxQuality}

-----------------------------------------------------------------------------
(* numpy and PIL, as the code uses them *)

\* np.array(img): the image's samples as an ndarray of shape (height, width, channels)
NpArray(img) ==
    [shape |-> <<img.height, img.width, img.channels>>,
     data  |-> [p \in 1 .. (img.height * img.width * img.channels) |-> SampleAt(img.seed, p)]]

RECURSIVE Insert(_, _)
Insert(x, s) ==
    IF s = <<>> THEN <<x>>
    ELSE IF x <= Head(s) THEN <<x>> \o s
    ELSE <<Head(s)>> \o Insert(x, Tail(s))

RECURSIVE Sorted(_)
Sorted(s) == IF s = <<>> THEN <<>> ELSE Insert(Head(s), Sorted(Tail(s)))

\* (mutant of MedianTimes2) an even count takes the lower middle sample, not the mean
MedianTimes2LowerMiddle(s) ==
    LET t == Sorted(s)
        n == Len(s)
    IN  IF n % 2 = 1 THEN 2 * t[(n + 1) \div 2]
        ELSE 2 * t[n \div 2]

\* np.median of n >= 1 samples, as twice its (float) value: the middle element of the
\* sorted samples, or the mean of the two middle ones.
MedianTimes2(s) ==
    LET t == Sorted(s)
        n == Len(s)
    IN  IF n % 2 = 1 THEN 2 * t[(n + 1) \div 2]
        ELSE t[n \div 2] + t[(n \div 2) + 1]

\* float.astype(np.uint8): the fraction is dropped, the value kept modulo 2^8
AsUint8(x2) == (x2 \div 2) % 256

\* (mutant of SameShapes) only the number of samples is compared, not the shape
SameShapesBySize(arrs) ==
    \A i, j \in 1 .. Len(arrs) : Len(arrs[i].data) = Len(arrs[j].data)

\* True when np.median(arrays, axis=0) can build one array of the list
SameShapes(arrs) == \A i, j \in 1 .. Len(arrs) : arrs[i].shape = arrs[j].shape

\* np.median(aligned_images, axis=0).astype(np.uint8), for arrays of one shape
MedianStack(arrs) ==
    [shape |-> arrs[1].shape,
     data  |-> [p \in DOMAIN arrs[1].data |->
                  AsUint8(MedianTimes2([i \in 1 .. Len(arrs) |-> arrs[i].data[p]]))]]

\* _align_images: returns the list as it is
AlignImages(arrs) == arrs

\* A processed image: its size, its channels, whether _enhance_image produced it
ResultRec(w, h, c, e) == [width |-> w, height |-> h, channels |-> c, enhanced |-> e]

\* A loaded PIL image as the processor handles it (image.copy())
Copy(img) == ResultRec(img.width, img.height, img.channels, FALSE)

\* Image.fromarray(stacked)
FromArray(arr) == ResultRec(arr.shape[2], arr.shape[1], arr.shape[3], FALSE)

\* (mutant of ScaledSize) round(size * factor): the nearest integer, not the truncation
ScaledSizeRounded(size, factor) == (2 * size * factor + FactorUnit) \div (2 * FactorUnit)

\* int(size * factor) for a size >= 0 and a factor >= 0: the product, truncated
ScaledSize(size, factor) == (size * factor) \div FactorUnit

\* _upscale_image: resize to (int(width * factor), int(height * factor))
UpscaleImage(img, factor) ==
    ResultRec(ScaledSize(img.width, factor), ScaledSize(img.height, factor),
              img.channels, img.enhanced)

\* (mutant of UpscaleRequested) the guard written as upscale_factor >= 1.0
UpscaleRequestedInclusive(s) == s.upscale_factor >= FactorUnit

\* the guard of the upscaling stage: upscale_factor > 1.0
UpscaleRequested(s) == s.upscale_factor > FactorUnit

\* _enhance_image: sharpness, then contrast; a new image of the same size
EnhanceImage(img) == ResultRec(img.width, img.height, img.channels, TRUE)

\* str.lower() on the output formats
Lower(fmt) ==
    CASE fmt = "PNG" -> "png"
      [] fmt = "JPEG" -> "jpeg"
      [] fmt = "TIFF" -> "tiff"

\* export_processed_image: the file name
ExportFilename(s) == "processed_image." \o Lower(s.output_format)

\* (mutant of SaveCall) quality and optimize are passed whatever the format
SaveCallAlwaysQuality(s) ==
    [format |-> s.output_format, quality |-> s.jpeg_quality, optimize |-> TRUE]

\* export_processed_image: the arguments of image.save
SaveCall(s) ==
    IF s.output_format = "JPEG"
    THEN [format |-> s.output_format, quality |-> s.jpeg_quality, optimize |-> TRUE]
    ELSE [format |-> s.output_format]

\* What image.save raises by itself: PIL's JPEG writer refuses an image with an alpha
\* channel (OSError) and a quality that is no integer (ValueError)
SaveError(img, s) ==
    IF s.output_format = "JPEG" /\ img.channels = 4 THEN "OSError"
    ELSE IF s.output_format = "JPEG" /\ s.jpeg_quality = NoQuality THEN "ValueError"
    ELSE "none"

-----------------------------------------------------------------------------
(* The state at the start of a run *)

Fresh ==
    /\ calls = <<>>
    /\ clicked = "none"
    /\ stacked = None
    /\ raised = "none"
    /\ resized = FALSE
    /\ stages = <<>>
    /\ ui = <<>>
    /\ save_call = None
    /\ exported = None

\* A request of the Streamlit application: the widgets' values are the inputs
InitApp ==
    /\ entry = "app"
    /\ settings \in UISettings
    /\ uploaded_files \in SeqsUpTo(AppFiles, MaxFiles)
    /\ images = <<>>
    /\ result = None
    /\ pc = "_handle_file_uploads"

\* ImageProcessor.process_multiple_images(images, settings) called directly
InitMultiple ==
    /\ entry = "process_multiple_images"
    /\ settings \in { SettingsRec(f, "PNG", NoQuality) : f \in StackFactors }
    /\ uploaded_files = <<>>
    /\ images \in SeqsUpTo(TestImages, MaxFiles)
    /\ result = None
    /\ pc = "process_multiple_images"

\* ImageProcessor.process_single_image(image, settings) called directly
InitSingle ==
    /\ entry = "process_single_image"
    /\ settings \in { SettingsRec(f, "PNG", NoQuality) : f \in DirectFactors }
    /\ uploaded_files = <<>>
    /\ images \in { <<img>> : img \in TestImages }
    /\ result = None
    /\ pc = "process_single_image"

\* ImageProcessor._upscale_image(image, factor) called directly, factor >= 1.0
InitUpscale ==
    /\ entry = "_upscale_image"
    /\ settings \in { SettingsRec(f, "PNG", NoQuality) : f \in MinFactor .. MaxFactor }
    /\ uploaded_files = <<>>
    /\ images \in { <<ImageRec(w, h, 3, 0, TRUE)>> : w \in 1 .. MaxDim, h \in 1 .. MaxDim }
    /\ result = None
    /\ pc = "_upscale_image"

\* ImageProcessor.export_processed_image(image, settings) called directly
InitExport ==
    /\ entry = "export_processed_image"
    /\ settings \in { SettingsRec(MinFactor, fmt, q) : fmt \in OUTPUT_FORMATS, q \in DirectQualities }
    /\ uploaded_files = <<>>
    /\ images = <<>>
    /\ result \in { ResultRec(1, 1, c, e) : c \in ChannelCounts, e \in BOOLEAN }
    /\ pc = "export_processed_image"

Init ==
    /\ Fresh
    /\ (InitApp \/ InitMultiple \/ InitSingle \/ InitUpscale \/ InitExport)

-----------------------------------------------------------------------------
(* ImageProcessor *)

\* an exception leaves the method
Raise(e) ==
    /\ raised' = e
    /\ pc' = "returned"

\* (mutant of TooFewImages) the check written as len(images) < 1
TooFewImagesOffByOne(imgs) == Len(imgs) < 1

\* process_multiple_images, line 26: len(images) < 2
TooFewImages(imgs) == Len(imgs) < 2

\* process_multiple_images, lines 26-27: the length check
ProcessMultipleImages ==
    /\ pc = "process_multiple_images"
    /\ calls' = Append(calls, "process_multiple_images")
    /\ \/ /\ TooFewImages(images)
          /\ Raise("ValueError")
       \/ /\ ~TooFewImages(images)
          /\ pc' = "align"
          /\ UNCHANGED raised
    /\ UNCHANGED <<entry, settings, uploaded_files, images, clicked, stacked, result, resized,
                   stages, ui, save_call, exported>>

\* process_multiple_images, lines 30-33: np.array of every image, then _align_images
Align ==
    /\ pc = "align"
    /\ stages' = Append(stages, "align")
    /\ \/ /\ \E i \in 1 .. Len(images) : ~images[i].loads
          /\ Raise("OSError")
       \/ Raise("MemoryError")
       \/ /\ \A i \in 1 .. Len(images) : images[i].loads
          /\ pc' = "stack"
          /\ UNCHANGED raised
    /\ UNCHANGED <<entry, calls, settings, uploaded_files, images, clicked, stacked, result, resized,
                   ui, save_call, exported>>

\* the arrays np.median is given
AlignedImages == AlignImages([i \in 1 .. Len(images) |-> NpArray(images[i])])

\* process_multiple_images, lines 36-39: the median stack, back to a PIL image
Stack ==
    /\ pc = "stack"
    /\ stages' = Append(stages, "stack")
    /\ \/ /\ ~SameShapes(AlignedImages)
          /\ Raise("ValueError")
          /\ UNCHANGED <<stacked, result>>
       \/ /\ SameShapes(AlignedImages)
          /\ Raise("MemoryError")
          /\ UNCHANGED <<stacked, result>>
       \/ /\ SameShapes(AlignedImages)
          /\ stacked' = MedianStack(AlignedImages)
          /\ result' = FromArray(stacked')
          /\ pc' = "upscale"
          /\ UNCHANGED raised
    /\ UNCHANGED <<entry, calls, settings, uploaded_files, images, clicked, resized, ui, save_call, exported>>

\* (mutant of ProcessSingleImage) the copy goes straight to the enhancer
ProcessSingleImageSkipsUpscale ==
    /\ pc = "process_single_image"
    /\ calls' = Append(calls, "process_single_image")
    /\ images[1].loads
    /\ result' = Copy(images[1])
    /\ pc' = "enhance"
    /\ UNCHANGED <<entry, settings, uploaded_files, images, clicked, stacked, raised,
                   resized, stages, ui, save_call, exported>>

\* process_single_image, line 62: image.copy()
ProcessSingleImage ==
    /\ pc = "process_single_image"
    /\ calls' = Append(calls, "process_single_image")
    /\ \/ /\ ~images[1].loads
          /\ Raise("OSError")
          /\ UNCHANGED result
       \/ /\ Raise("MemoryError")
          /\ UNCHANGED result
       \/ /\ images[1].loads
          /\ result' = Copy(images[1])
          /\ pc' = "upscale"
          /\ UNCHANGED raised
    /\ UNCHANGED <<entry, settings, uploaded_files, images, clicked, stacked, resized, stages, ui,
                   save_call, exported>>

\* process_multiple_images, lines 41-44, and process_single_image, lines 64-67
Upscale ==
    /\ pc = "upscale"
    /\ stages' = Append(stages, "upscale")
    /\ \/ /\ UpscaleRequested(settings)
          /\ resized' = TRUE
          /\ \/ /\ Raise("MemoryError")
                /\ UNCHANGED result
             \/ /\ result' = UpscaleImage(result, settings.upscale_factor)
                /\ pc' = "enhance"
                /\ UNCHANGED raised
       \/ /\ ~UpscaleRequested(settings)
          /\ pc' = "enhance"
          /\ UNCHANGED <<result, resized, raised>>
    /\ UNCHANGED <<entry, calls, settings, uploaded_files, images, clicked, stacked, ui, save_call, exported>>

\* process_multiple_images, lines 47-49, and process_single_image, lines 70-72
Enhance ==
    /\ pc = "enhance"
    /\ stages' = Append(stages, "enhance")
    /\ \/ /\ Raise("MemoryError")
          /\ UNCHANGED result
       \/ /\ result' = EnhanceImage(result)
          /\ pc' = "returned"
          /\ UNCHANGED raised
    /\ UNCHANGED <<entry, calls, settings, uploaded_files, images, clicked, stacked, resized, ui,
                   save_call, exported>>

\* _upscale_image called directly
CallUpscaleImage ==
    /\ pc = "_upscale_image"
    /\ resized' = TRUE
    /\ result' = UpscaleImage(Copy(images[1]), settings.upscale_factor)
    /\ pc' = "returned"
    /\ UNCHANGED <<entry, calls, settings, uploaded_files, images, clicked, stacked, raised, stages, ui,
                   save_call, exported>>

\* export_processed_image called directly
CallExportProcessedImage ==
    /\ pc = "export_processed_image"
    /\ stages' = Append(stages, "encode")
    /\ save_call' = SaveCall(settings)
    /\ \/ /\ SaveError(result, settings) # "none"
          /\ Raise(SaveError(result, settings))
          /\ UNCHANGED exported
       \/ /\ SaveError(result, settings) = "none"
          /\ Raise("MemoryError")
          /\ UNCHANGED exported
       \/ /\ SaveError(result, settings) = "none"
          /\ exported' = [filename |-> ExportFilename(settings)]
          /\ pc' = "returned"
          /\ UNCHANGED raised
    /\ UNCHANGED <<entry, calls, settings, uploaded_files, images, clicked, stacked, result, resized, ui>>

-----------------------------------------------------------------------------
(* UIManager and ImageStackerApp *)

\* (mutant of OpenedImages) one file that does not open empties the list
OpenedImagesAllOrNothing(files) ==
    IF \E i \in 1 .. Len(files) : ~files[i].opens THEN <<>>
    ELSE [i \in 1 .. Len(files) |-> files[i].image]

\* display_uploaded_images: the images Image.open returned, in upload order
OpenedImages(files) ==
    LET opened == SelectSeq(files, LAMBDA f : f.opens)
    IN  [i \in 1 .. Len(opened) |-> opened[i].image]

\* display_uploaded_images: what the loop shows for each file, a preview or an error
UploadDisplay(files) ==
    [i \in 1 .. Len(files) |->
        IF files[i].opens /\ files[i].image.loads THEN "uploaded_image" ELSE "load_error"]

\* _handle_file_uploads, with create_file_uploader and display_uploaded_images
HandleFileUploads ==
    /\ pc = "_handle_file_uploads"
    /\ \/ /\ uploaded_files = <<>>
          /\ ui' = Append(ui, "instructions")
          /\ pc' = "done"
          /\ UNCHANGED images
       \/ /\ uploaded_files # <<>>
          /\ images' = OpenedImages(uploaded_files)
          /\ IF images' = <<>>
             THEN /\ ui' = ui \o UploadDisplay(uploaded_files) \o <<"error_no_valid_images">>
                  /\ pc' = "done"
             ELSE /\ ui' = ui \o UploadDisplay(uploaded_files)
                  /\ pc' = IF Len(images') >= 2 THEN "_handle_multiple_images"
                            ELSE "_handle_single_image"
    /\ UNCHANGED <<entry, calls, settings, uploaded_files, clicked, stacked, result, raised,
                   resized, stages, save_call, exported>>

\* show_processing_buttons(num_images): the buttons shown, and the clicks they can report
ButtonsShown(num_images) ==
    IF num_images >= 2 THEN <<"stack_button", "enhance_button">>
    ELSE <<"stack_button_disabled", "enhance_button">>

PossibleClicks(num_images) ==
    IF num_images >= 2 THEN {"none", "stack", "enhance"} ELSE {"none", "enhance"}

\* (mutant of HandleMultipleImages) a click on "Enhance Single Image" enhances the
\* first of the images
HandleMultipleImagesEnhancesFirst ==
    /\ pc = "_handle_multiple_images"
    /\ ui' = ui \o ButtonsShown(Len(images))
    /\ \E c \in PossibleClicks(Len(images)) :
          /\ clicked' = c
          /\ pc' = CASE c = "stack" -> "process_multiple_images"
                     [] c = "enhance" -> "process_single_image"
                     [] OTHER -> "done"
    /\ UNCHANGED <<entry, calls, settings, uploaded_files, images, stacked, result, raised,
                   resized, stages, save_call, exported>>

\* _handle_multiple_images, lines 64-67
HandleMultipleImages ==
    /\ pc = "_handle_multiple_images"
    /\ ui' = ui \o ButtonsShown(Len(images))
    /\ \E c \in PossibleClicks(Len(images)) :
          /\ clicked' = c
          /\ pc' = IF c = "stack" THEN "process_multiple_images" ELSE "done"
    /\ UNCHANGED <<entry, calls, settings, uploaded_files, images, stacked, result, raised,
                   resized, stages, save_call, exported>>

\* _handle_single_image, lines 92-95
HandleSingleImage ==
    /\ pc = "_handle_single_image"
    /\ ui' = ui \o ButtonsShown(1)
    /\ \E c \in PossibleClicks(1) :
          /\ clicked' = c
          /\ pc' = IF c = "enhance" THEN "process_single_image" ELSE "done"
    /\ UNCHANGED <<entry, calls, settings, uploaded_files, images, stacked, result, raised,
                   resized, stages, save_call, exported>>

\* _process_images_safely: the message shown for an exception
ProcessingErrorMessage(e) ==
    CASE e = "MemoryError" -> "error_not_enough_memory"
      [] e = "ValueError" -> "error_invalid_input"
      [] OTHER -> "error_processing"

\* _process_images_safely, and the callers' `if enhanced_image is None: return`
ProcessImagesSafely ==
    /\ entry = "app"
    /\ pc = "returned"
    /\ \/ /\ raised # "none"
          /\ ui' = Append(ui, ProcessingErrorMessage(raised))
          /\ pc' = "done"
       \/ /\ raised = "none"
          /\ pc' = "display_processing_results"
          /\ UNCHANGED ui
    /\ UNCHANGED <<entry, calls, settings, uploaded_files, images, clicked, stacked, result,
                   raised, resized, stages, save_call, exported>>

\* get_export_info and display_processing_results
DisplayProcessingResults ==
    /\ pc = "display_processing_results"
    /\ ui' = ui \o <<"processed_image", "metrics">>
    /\ pc' = "_handle_image_download"
    /\ UNCHANGED <<entry, calls, settings, uploaded_files, images, clicked, stacked, result,
                   raised, resized, stages, save_call, exported>>

\* _handle_image_download: export_processed_image, then the download button, or the
\* message of `except Exception`
HandleImageDownload ==
    /\ pc = "_handle_image_download"
    /\ stages' = Append(stages, "encode")
    /\ save_call' = SaveCall(settings)
    /\ \/ /\ SaveError(result, settings) # "none"
          /\ raised' = SaveError(result, settings)
          /\ ui' = Append(ui, "error_export_failed")
          /\ UNCHANGED exported
       \/ /\ SaveError(result, settings) = "none"
          /\ raised' = "MemoryError"
          /\ ui' = Append(ui, "error_export_failed")
          /\ UNCHANGED exported
       \/ /\ SaveError(result, settings) = "none"
          /\ exported' = [filename |-> ExportFilename(settings)]
          /\ ui' = Append(ui, "download_button")
          /\ UNCHANGED raised
    /\ pc' = "show_success_message"
    /\ UNCHANGED <<entry, calls, settings, uploaded_files, images, clicked, stacked, result, resized>>

\* show_success_message, the last line of both handlers
ShowSuccessMessage ==
    /\ pc = "show_success_message"
    /\ ui' = Append(ui, "success")
    /\ pc' = "done"
    /\ UNCHANGED <<entry, calls, settings, uploaded_files, images, clicked, stacked, result,
                   raised, resized, stages, save_call, exported>>

-----------------------------------------------------------------------------

Next ==
    \/ HandleFileUploads
    \/ HandleMultipleImages
    \/ HandleSingleImage
    \/ ProcessMultipleImages
    \/ Align
    \/ Stack
    \/ ProcessSingleImage
    \/ Upscale
    \/ Enhance
    \/ ProcessImagesSafely
    \/ DisplayProcessingResults
    \/ HandleImageDownload
    \/ ShowSuccessMessage
    \/ CallUpscaleImage
    \/ CallExportProcessedImage

Spec == Init /\ [][Next]_vars

-----------------------------------------------------------------------------
(* Properties *)

Range(s) == { s[i] : i \in DOMAIN s }

\* the run goes through process_multiple_images / process_single_image
IsPipelineRun == entry \in {"app", "process_multiple_images", "process_single_image"}

\* the samples of the input images at row-major position p
SamplesAt(p) == [i \in 1 .. Len(images) |-> SampleAt(images[i].seed, p)]

\* v is the k-th smallest of the samples s
IsOrderStatistic(v, k, s) ==
    /\ v \in Range(s)
    /\ Cardinality({ i \in DOMAIN s : s[i] <= v }) >= k
    /\ Cardinality({ i \in DOMAIN s : s[i] >= v }) >= Len(s) - k + 1

\* v is the median of the samples s as an 8-bit sample: the middle one, or the mean of
\* the two middle ones without its fraction
IsMedianSample(v, s) ==
    LET n == Len(s)
    IN  /\ v \in 0 .. 255
        /\ IF n % 2 = 1
           THEN IsOrderStatistic(v, (n + 1) \div 2, s)
           ELSE \E lo, hi \in Range(s) :
                   /\ IsOrderStatistic(lo, n \div 2, s)
                   /\ IsOrderStatistic(hi, (n \div 2) + 1, s)
                   /\ 2 * v <= lo + hi
                   /\ lo + hi < 2 * v + 2

\* C1: the stacking step of process_multiple_images yields, for N >= 2 same-shaped
\* 8-bit images, an image of the inputs' shape whose sample at every position and
\* channel is the median of the N input samples there; for even N the mean of the
\* two middle samples as an integer in 0..255 (0 and 100 give 50).
C1_StackIsMedian ==
    stacked # None =>
        /\ Len(images) >= 2
        /\ \A i \in 1 .. Len(images) :
              stacked.shape = <<images[i].height, images[i].width, images[i].channels>>
        /\ DOMAIN stacked.data = 1 .. (stacked.shape[1] * stacked.shape[2] * stacked.shape[3])
        /\ \A p \in DOMAIN stacked.data : IsMedianSample(stacked.data[p], SamplesAt(p))

\* C1 witness: two images stacked, with samples 0 and 100 at one position giving 50
C1_Witness ==
    /\ stacked # None
    /\ Len(images) = 2
    /\ \E p \in DOMAIN stacked.data :
          /\ Range(SamplesAt(p)) = {0, 100}
          /\ stacked.data[p] = 50

\* the image handed to the upscaler
UpscalerInput == IF stacked # None THEN FromArray(stacked) ELSE Copy(images[1])

\* the state holds the output of a resize: right after _upscale_image returned
HoldsUpscalerOutput ==
    \/ entry = "_upscale_image" /\ pc = "returned"
    \/ IsPipelineRun /\ pc = "enhance" /\ resized

\* n is a nearest integer to size * factor (a tie may go either way)
IsRounded(n, size, factor) ==
    /\ 2 * (FactorUnit * n - size * factor) <= FactorUnit
    /\ 2 * (size * factor - FactorUnit * n) <= FactorUnit

\* n is size * factor without its fraction
IsTruncated(n, size, factor) ==
    /\ FactorUnit * n <= size * factor
    /\ size * factor < FactorUnit * (n + 1)

\* C2 as stated (refuted): the upscaler output has width = round(W * f) and
\* height = round(H * f) for every factor f >= 1.0.
C2_Original_Rounded ==
    HoldsUpscalerOutput =>
        /\ IsRounded(result.width, UpscalerInput.width, settings.upscale_factor)
        /\ IsRounded(result.height, UpscalerInput.height, settings.upscale_factor)

\* C2 amended: for every factor f >= 1.0 that is a multiple of 0.25 (every slider
\* value), the upscaler output has width = int(W * f) and height = int(H * f): the
\* products with their fractions dropped, not rounded.
C2_UpscaleTruncates ==
    HoldsUpscalerOutput =>
        /\ settings.upscale_factor >= FactorUnit
        /\ IsTruncated(result.width, UpscalerInput.width, settings.upscale_factor)
        /\ IsTruncated(result.height, UpscalerInput.height, settings.upscale_factor)

\* C2 witness: _upscale_image returned a width below the rounded product
\* (3 * 1.25 = 3.75 gives 3)
C2_Witness ==
    /\ entry = "_upscale_image"
    /\ pc = "returned"
    /\ images[1].width = 3
    /\ settings.upscale_factor = FactorUnit + 1
    /\ result.width = 3

\* C3 as stated (refuted by the code): processing with an upscale factor below 1.0
\* never completes successfully; it fails with an error and returns no image.
C3_Original_SmallFactorFails ==
    (IsPipelineRun /\ settings.upscale_factor < FactorUnit /\ pc = "returned") =>
        raised # "none"

\* the page shows an error message
ErrorShown ==
    Range(ui) \cap {"error_not_enough_memory", "error_invalid_input", "error_processing",
                    "error_export_failed"} # {}

\* the elements that surface a processed image
OutputElements == {"processed_image", "metrics", "download_button", "success"}

\* C4 as stated (refuted by the code): whenever a pipeline stage (stacking,
\* upscaling, enhancing or encoding) fails during a request, an error message is
\* shown and the processed image, the metrics, the download button and the success
\* message are all not surfaced.
C4_Original_NoPartialOutput ==
    (entry = "app" /\ pc = "done" /\ raised # "none") =>
        (ErrorShown /\ Range(ui) \cap OutputElements = {})

\* the uploads Image.open raises on
Unopenable == { i \in 1 .. Len(uploaded_files) : ~uploaded_files[i].opens }

\* the request went down the stacking path / the single-image path
RoutedMultiple == pc = "_handle_multiple_images" \/ "stack_button" \in Range(ui)
RoutedSingle == pc = "_handle_single_image" \/ "stack_button_disabled" \in Range(ui)

IsSubsequenceAt(s, t, keep) ==
    /\ Len(s) = Cardinality(keep)
    /\ \A i \in keep : s[Cardinality({ j \in keep : j <= i })] = t[i].image

MixedShapes ==
    \E i, j \in 1 .. Len(images) :
        \/ images[i].width # images[j].width
        \/ images[i].height # images[j].height
        \/ images[i].channels # images[j].channels

\* C6: stacking images whose dimensions or channel counts are not all identical
\* fails with the shape-mismatch error (numpy's ValueError) at the stacking step,
\* before any combined image exists: nothing is stacked, upscaled, enhanced or shown.
C6_ShapeMismatchFails ==
    (entry \in {"app", "process_multiple_images"} /\ MixedShapes) =>
        /\ stacked = None
        /\ result = None
        /\ ~resized
        /\ Range(stages) \subseteq {"align", "stack"}
        /\ "stack" \in Range(stages) =>
              /\ raised = "ValueError"
              /\ pc \in {"returned", "done"}
        /\ Range(ui) \cap OutputElements = {}
        /\ (entry = "app" /\ pc = "done" /\ "stack" \in Range(stages)) =>
              "error_invalid_input" \in Range(ui)

\* C6 witness: the stacking step ran on images of different shapes and raised
C6_Witness ==
    /\ entry = "process_multiple_images"
    /\ MixedShapes
    /\ stages = <<"align", "stack">>
    /\ raised = "ValueError"
    /\ pc = "returned"

\* C7: process_multiple_images called with fewer than 2 images (0 or 1) fails with
\* the insufficient-input error (ValueError) before converting, aligning, stacking,
\* upscaling or enhancing anything, and returns no image.
C7_TooFewImagesFail ==
    (entry = "process_multiple_images" /\ Len(images) < 2 /\ pc # "process_multiple_images") =>
        /\ pc = "returned"
        /\ raised = "ValueError"
        /\ stages = <<>>
        /\ stacked = None
        /\ result = None
        /\ ~resized

\* C7 witness: process_multiple_images raised on a list of one image
C7_Witness ==
    /\ entry = "process_multiple_images"
    /\ Len(images) = 1
    /\ pc = "returned"
    /\ raised = "ValueError"

\* the request or call takes the stacking path (decided by the number of images)
OnStackingPath ==
    \/ entry = "process_multiple_images"
    \/ entry = "app" /\ Len(images) >= 2

\* the order of the stages on the path taken; only a request of the app encodes
StageOrder ==
    (IF OnStackingPath THEN <<"align", "stack">> ELSE <<>>)
    \o <<"upscale", "enhance">>
    \o (IF entry = "app" THEN <<"encode">> ELSE <<>>)

IsPrefix(s, t) ==
    /\ Len(s) <= Len(t)
    /\ \A i \in 1 .. Len(s) : s[i] = t[i]

\* C8: in every request the stages run in one fixed linear order decided by the
\* input count: align, stack, upscale, enhance, encode with >= 2 images; upscale,
\* enhance, encode with exactly 1.  No stage runs twice, no stage runs before its
\* predecessor has succeeded, and encoding happens only on the enhanced image.
C8_StagesInOrder ==
    IsPipelineRun =>
        /\ IsPrefix(stages, StageOrder)
        /\ "stack" \in Range(stages) => \A i \in 1 .. Len(images) : images[i].loads
        /\ "upscale" \in Range(stages) =>
              /\ result # None
              /\ OnStackingPath => stacked # None
              /\ ~OnStackingPath => images[1].loads
        /\ "enhance" \in Range(stages) => (resized <=> settings.upscale_factor > FactorUnit)
        /\ "encode" \in Range(stages) => result.enhanced
        /\ (raised # "none" /\ stages # <<>>) =>
              pc \in {"returned", "done", "show_success_message"}
        /\ (pc = "done" /\ "success" \in Range(ui)) => stages = StageOrder

\* C8 witness: a request of the app stacked >= 2 images through all five stages
C8_Witness ==
    /\ entry = "app"
    /\ pc = "done"
    /\ stages = <<"align", "stack", "upscale", "enhance", "encode">>
    /\ exported # None

\* C9: with upscale factor 1.0 the upscaling stage is a pass-through: no resize is
\* performed and the image handed to the enhancer has exactly the input's width and
\* height (3 stacked images with factor 1.0 keep their size).
C9_FactorOneIsPassThrough ==
    (IsPipelineRun /\ settings.upscale_factor = FactorUnit) =>
        /\ ~resized
        /\ (pc = "enhance" \/ "enhance" \in Range(stages)) =>
              /\ result.width = UpscalerInput.width
              /\ result.height = UpscalerInput.height

\* C9 witness: a request stacked 3 images with factor 1.0 and shows a result of
\* their size
C9_Witness ==
    /\ entry = "app"
    /\ settings.upscale_factor = FactorUnit
    /\ Len(images) = 3
    /\ pc = "done"
    /\ "processed_image" \in Range(ui)
    /\ result.enhanced
    /\ result.width = images[1].width
    /\ result.height = images[1].height

\* C10: export_processed_image names the file processed_image.<format in lower
\* case> for PNG, JPEG and TIFF, and passes quality (with optimize=True) to the
\* encoder if and only if the format is JPEG; for PNG and TIFF the encode call holds
\* the format alone, whatever jpeg_quality is.
C10_ExportCallAndName ==
    save_call # None =>
        /\ settings.output_format = "JPEG" =>
              save_call = [format |-> "JPEG", quality |-> settings.jpeg_quality,
                           optimize |-> TRUE]
        /\ settings.output_format # "JPEG" =>
              save_call = [format |-> settings.output_format]
        /\ (entry = "export_processed_image" /\ raised = "none") => exported # None
        /\ exported # None =>
              exported.filename =
                  CASE settings.output_format = "PNG" -> "processed_image.png"
                    [] settings.output_format = "JPEG" -> "processed_image.jpeg"
                    [] settings.output_format = "TIFF" -> "processed_image.tiff"

\* C10 witness: a TIFF export with a quality in the settings made an encode call
\* without it
C10_Witness ==
    /\ entry = "export_processed_image"
    /\ settings.output_format = "TIFF"
    /\ settings.jpeg_quality = MinQuality
    /\ save_call = [format |-> "TIFF"]
    /\ exported = [filename |-> "processed_image.tiff"]

\* the messages of the generic handlers: "Processing error", "Invalid input",
\* "Export failed"
GenericErrors == {"error_processing", "error_invalid_input", "error_export_failed"}

\* C11 as stated (refuted by the code): an out-of-memory failure raised in any
\* pipeline stage of a request (stacking, upscaling, enhancing or encoding) is
\* reported with the distinct memory message, never with a generic
\* processing/export failure message.
C11_Original_MemoryMessage ==
    (entry = "app" /\ raised = "MemoryError" /\ pc = "done") =>
        /\ "error_not_enough_memory" \in Range(ui)
        /\ Range(ui) \cap GenericErrors = {}

\* the number of uploads Image.open returned an image for
DecodedCount == Len(uploaded_files) - Cardinality(Unopenable)

====
